---------------------------- MODULE Spec2Model ----------------------------
(***************************************************************************)
(* Model of the rule-based movie recommendation assistant of tasks.py:     *)
(* identify_slots (slot extraction from free text), retrieve_candidates    *)
(* (scoring and ranking of the fixed catalog) and get_ai_response (the     *)
(* clarification policy).  Text is a TLA+ string; substring search, word   *)
(* boundaries, lower-casing and integer parsing are computed character by  *)
(* character, as Python's str and re do on ASCII text.                     *)
(***************************************************************************)
EXTENDS Integers, Sequences, FiniteSets, TLC

VARIABLES
    pc,             \* "idle", "called" or "returned"
    op,             \* the function called
    user_input,     \* the text passed to identify_slots or get_ai_response
    filled_slots,   \* the FilledSlots mapping (argument or result)
    missing_slots,  \* the MissingSlots list returned by identify_slots
    top_k,          \* the top_k passed to retrieve_candidates
    candidates,     \* the list returned by retrieve_candidates
    response        \* the question returned by get_ai_response

vars == <<pc, op, user_input, filled_slots, missing_slots, top_k, candidates, response>>

-----------------------------------------------------------------------------
(* Bounds of the explored inputs.                                          *)

\* Free-order inputs are sequences of at most MaxWords vocabulary words.
MaxWords == 2
\* retrieve_candidates is called with top_k in -MaxNegTopK .. MaxTopK.
MaxTopK == 6
MaxNegTopK == 2

-----------------------------------------------------------------------------
(* Python str primitives.                                                  *)

Min(a, b) == IF a < b THEN a ELSE b
Max(a, b) == IF a > b THEN a ELSE b

CharAt(s, i) == SubSeq(s, i, i)

UpperLetters == "ABCDEFGHIJKLMNOPQRSTUVWXYZ"
LowerLetters == "abcdefghijklmnopqrstuvwxyz"
Digits == "0123456789"

CharsOf(s) == {CharAt(s, i) : i \in 1..Len(s)}
UpperSet == CharsOf(UpperLetters)
LowerSet == CharsOf(LowerLetters)
DigitSet == CharsOf(Digits)

\* str.lower() of one character.
LowerChar(c) ==
    IF c \in UpperSet
    THEN CharAt(LowerLetters, CHOOSE i \in 1..26 : CharAt(UpperLetters, i) = c)
    ELSE c

RECURSIVE Lower(_)
\* str.lower()
Lower(s) == IF s = "" THEN "" ELSE LowerChar(CharAt(s, 1)) \o Lower(SubSeq(s, 2, Len(s)))

\* pat in text (Python substring test; the empty pattern is in every text).
Contains(text, pat) ==
    \E i \in 1..(Len(text) - Len(pat) + 1) : SubSeq(text, i, i + Len(pat) - 1) = pat

\* str.endswith
EndsWith(s, suffix) ==
    Len(s) >= Len(suffix) /\ SubSeq(s, Len(s) - Len(suffix) + 1, Len(s)) = suffix

RECURSIVE RemoveChar(_, _)
\* s.replace(c, '') for a one-character c.
RemoveChar(s, c) ==
    IF s = "" THEN ""
    ELSE (IF CharAt(s, 1) = c THEN "" ELSE CharAt(s, 1)) \o RemoveChar(SubSeq(s, 2, Len(s)), c)

IsSpace(c) == c = " "

RECURSIVE SplitFrom(_, _, _)
\* The whitespace-delimited tokens of s from position i on, cur being the
\* token under construction.
SplitFrom(s, i, cur) ==
    IF i > Len(s) THEN (IF cur = "" THEN <<>> ELSE <<cur>>)
    ELSE IF IsSpace(CharAt(s, i))
         THEN (IF cur = "" THEN <<>> ELSE <<cur>>) \o SplitFrom(s, i + 1, "")
         ELSE SplitFrom(s, i + 1, cur \o CharAt(s, i))

\* str.split()
Split(s) == SplitFrom(s, 1, "")

\* str.isdigit()
IsDigitStr(s) == s # "" /\ \A i \in 1..Len(s) : CharAt(s, i) \in DigitSet

DigitVal(c) == (CHOOSE i \in 1..10 : CharAt(Digits, i) = c) - 1

RECURSIVE ParseDigits(_)
ParseDigits(s) ==
    IF s = "" THEN 0
    ELSE 10 * ParseDigits(SubSeq(s, 1, Len(s) - 1)) + DigitVal(CharAt(s, Len(s)))

RECURSIVE Strip(_)
\* str.strip() of blanks.
Strip(s) ==
    IF s = "" THEN ""
    ELSE IF IsSpace(CharAt(s, 1)) THEN Strip(SubSeq(s, 2, Len(s)))
    ELSE IF IsSpace(CharAt(s, Len(s))) THEN Strip(SubSeq(s, 1, Len(s) - 1))
    ELSE s

HasSign(s) == s # "" /\ CharAt(s, 1) \in {"+", "-"}
Unsigned(s) == IF HasSign(s) THEN SubSeq(s, 2, Len(s)) ELSE s

\* Whether int(s) succeeds (blanks stripped, optional sign, decimal digits);
\* otherwise int(s) raises ValueError.
IntParses(s) == IsDigitStr(Unsigned(Strip(s)))

\* int(s) when it succeeds.
ParseInt(s) ==
    LET t == Strip(s)
        n == ParseDigits(Unsigned(t))
    IN IF HasSign(t) /\ CharAt(t, 1) = "-" THEN 0 - n ELSE n

RECURSIVE NatToStr(_)
NatToStr(n) ==
    IF n < 10 THEN CharAt(Digits, n + 1)
    ELSE NatToStr(n \div 10) \o CharAt(Digits, (n % 10) + 1)

\* str(n) of an integer.
IntToStr(n) == IF n < 0 THEN "-" \o NatToStr(0 - n) ELSE NatToStr(n)

-----------------------------------------------------------------------------
(* Python re primitives.                                                   *)

\* \w on ASCII text.
WordChars == UpperSet \cup LowerSet \cup DigitSet \cup {"_"}
IsWordChar(c) == c \in WordChars

WordAt(text, i) == i >= 1 /\ i <= Len(text) /\ IsWordChar(CharAt(text, i))

\* \b at the gap before position i (1 .. Len(text) + 1).
Boundary(text, i) == WordAt(text, i - 1) # WordAt(text, i)

\* Whether the literal pat matches at position i with \b on both sides.
MatchWordAt(text, pat, i) ==
    /\ i + Len(pat) - 1 <= Len(text)
    /\ SubSeq(text, i, i + Len(pat) - 1) = pat
    /\ Boundary(text, i)
    /\ Boundary(text, i + Len(pat))

\* re.search(r'\b' + re.escape(pat) + r'\b', text)
SearchWord(text, pat) == \E i \in 1..Len(text) : MatchWordAt(text, pat, i)

\* re.search(r'\b(p1|p2|...)\b', text) for literal alternatives.
SearchAnyWord(text, pats) == \E p \in pats : SearchWord(text, p)

\* Whether r'\b(19|20)\d{2}\b' matches at position i.
YearAt(s, i) ==
    /\ i + 3 <= Len(s)
    /\ SubSeq(s, i, i + 1) \in {"19", "20"}
    /\ CharAt(s, i + 2) \in DigitSet
    /\ CharAt(s, i + 3) \in DigitSet
    /\ Boundary(s, i)
    /\ Boundary(s, i + 4)

YearPositions(s) == {i \in 1..Len(s) : YearAt(s, i)}

SetMin(S) == CHOOSE x \in S : \A y \in S : x <= y

-----------------------------------------------------------------------------
(* Provided data.                                                          *)

Movie(t, g, y, d, l, k) ==
    [title |-> t, genre |-> g, release_year |-> y, director |-> d, language |-> l,
     keywords |-> k]

MOVIE_DB == <<
    Movie("Inception", "Sci-Fi/Action", 2010, "Christopher Nolan", "English",
          <<"dream", "thriller", "mind-bending", "heist">>),
    Movie("Parasite", "Drama/Thriller", 2019, "Bong Joon Ho", "Korean",
          <<"family", "social commentary", "dark comedy", "serious">>),
    Movie("The Avengers", "Sci-Fi/Action", 2012, "Joss Whedon", "English",
          <<"superhero", "Marvel", "team-up", "blockbuster">>),
    Movie("La La Land", "Musical/Romance", 2016, "Damien Chazelle", "English",
          <<"music", "love", "dream", "emotional">>),
    Movie("The Dark Knight", "Action/Drama", 2008, "Christopher Nolan", "English",
          <<"superhero", "DC", "philosophical", "serious", "gritty">>) >>

\* The keys of DEFINED_SLOTS in dict (insertion) order.
DEFINED_SLOTS == <<"genre", "mood", "release_era", "director", "language", "runtime">>

\* (key, value) pairs in dict order.
GENRE_SYNONYMS == <<
    <<"sci-fi", "Sci-Fi">>,
    <<"science fiction", "Sci-Fi">>,
    <<"science-fiction", "Sci-Fi">>,
    <<"action", "Action">>,
    <<"drama", "Drama">>,
    <<"romance", "Romance">>,
    <<"musical", "Musical">>,
    <<"comedy", "Comedy">>,
    <<"thriller", "Thriller">>,
    <<"superhero", "Sci-Fi/Action">> >>

\* (mood, trigger list) pairs in dict order.
MOOD_KEYWORDS == <<
    <<"fun", <<"fun", "light", "funny", "laugh", "comedic", "entertaining">> >>,
    <<"serious", <<"serious", "dark", "grim", "heavy", "thoughtful", "dramatic">> >>,
    <<"emotional", <<"emotional", "touching", "tear", "sad", "romantic">> >>,
    <<"mind-bending", <<"mind-bending", "twisty", "puzzling", "complex">> >>,
    <<"blockbuster", <<"blockbuster", "epic", "big", "spectacle">> >> >>

\* (label, first year, last year) in dict order; range(a, b) is a .. b-1.
ERA_KEYWORDS == <<
    <<"1990s", 1990, 1999>>,
    <<"2000s", 2000, 2009>>,
    <<"2010s", 2010, 2019>>,
    <<"2020s", 2020, 2029>>,
    <<"classic", 1900, 1989>> >>

\* movie.get('release_year') in ERA_KEYWORDS.get(val, [])
InEra(val, year) ==
    \E i \in 1..Len(ERA_KEYWORDS) :
        ERA_KEYWORDS[i][1] = val /\ year >= ERA_KEYWORDS[i][2] /\ year <= ERA_KEYWORDS[i][3]

-----------------------------------------------------------------------------
(* identify_slots                                                          *)

\* The empty dict.
EmptySlots == [s \in {} |-> ""]

\* d[k] = v
Put(d, k, v) == (k :> v) @@ d

\* for key, val in GENRE_SYNONYMS.items(): first whole-word match, then break.
DetectGenre(text, filled) ==
    LET hits == {i \in 1..Len(GENRE_SYNONYMS) : SearchWord(text, GENRE_SYNONYMS[i][1])}
    IN IF hits = {} THEN filled ELSE Put(filled, "genre", GENRE_SYNONYMS[SetMin(hits)][2])

\* First mood one of whose triggers is a substring of the text.
DetectMood(text, filled) ==
    LET hits == {i \in 1..Len(MOOD_KEYWORDS) :
                    \E j \in 1..Len(MOOD_KEYWORDS[i][2]) :
                        Contains(text, MOOD_KEYWORDS[i][2][j])}
    IN IF hits = {} THEN filled ELSE Put(filled, "mood", MOOD_KEYWORDS[SetMin(hits)][1])

\* director_lower.split()[-1]
LastName(director_lower) ==
    LET parts == Split(director_lower) IN parts[Len(parts)]

\* First catalog director whose last name or full name is a substring.
DetectDirector(text, filled) ==
    LET hits == {i \in 1..Len(MOVIE_DB) :
                    LET director_lower == Lower(MOVIE_DB[i].director)
                    IN \/ Contains(text, LastName(director_lower))
                       \/ Contains(text, director_lower)}
    IN IF hits = {} THEN filled ELSE Put(filled, "director", MOVIE_DB[SetMin(hits)].director)

\* A 4-digit year of the raw input (first match, through int and str), else
\* the first era label found in the lower-cased text.
DetectEra(raw, text, filled) ==
    LET years == YearPositions(raw)
        eras  == {i \in 1..Len(ERA_KEYWORDS) :
                     \/ Contains(text, RemoveChar(ERA_KEYWORDS[i][1], "s"))
                     \/ Contains(text, ERA_KEYWORDS[i][1])}
    IN IF years # {}
       THEN LET y == ParseInt(SubSeq(raw, SetMin(years), SetMin(years) + 3))
            IN Put(filled, "release_era", IntToStr(y))
       ELSE IF eras = {} THEN filled
            ELSE Put(filled, "release_era", ERA_KEYWORDS[SetMin(eras)][1])

\* Catalog language found in the text, then the "korean" and "english" overrides.
DetectLanguage(text, filled) ==
    LET hits == {i \in 1..Len(MOVIE_DB) :
                    LET lang == Lower(MOVIE_DB[i].language)
                    IN lang # "" /\ Contains(text, lang)}
        f1 == IF hits = {} THEN filled ELSE Put(filled, "language", MOVIE_DB[SetMin(hits)].language)
        f2 == IF Contains(text, "korean") THEN Put(f1, "language", "Korean") ELSE f1
    IN IF Contains(text, "english") THEN Put(f2, "language", "English") ELSE f2

\* The alternatives of r'\b(short|under ?1 ?hr|< ?60|min)\b'
ShortPatterns ==
    {"short", "under1hr", "under 1hr", "under1 hr", "under 1 hr", "<60", "< 60", "min"}

\* The alternatives of r'\b(long|epic|over ?2 ?hr|> ?120|min)\b'
LongPatterns ==
    {"long", "epic", "over2hr", "over 2hr", "over2 hr", "over 2 hr", ">120", "> 120", "min"}

\* The long check first, the short check last (what a swapped pair of ifs does).
DetectRuntimeShortLast(text, filled) ==
    LET f1 == IF SearchAnyWord(text, LongPatterns) THEN Put(filled, "runtime", "long") ELSE filled
    IN IF SearchAnyWord(text, ShortPatterns) THEN Put(f1, "runtime", "short") ELSE f1

\* The short check, then the long check, which overwrites.
DetectRuntime(text, filled) ==
    LET f1 == IF SearchAnyWord(text, ShortPatterns) THEN Put(filled, "runtime", "short") ELSE filled
    IN IF SearchAnyWord(text, LongPatterns) THEN Put(f1, "runtime", "long") ELSE f1

\* Every defined slot but the last (what iterating a truncated key list does).
ComposeMissingDropLast(filled) ==
    SelectSeq(SubSeq(DEFINED_SLOTS, 1, Len(DEFINED_SLOTS) - 1), LAMBDA s : s \notin DOMAIN filled)

\* [s for s in DEFINED_SLOTS.keys() if s not in filled]
ComposeMissing(filled) == SelectSeq(DEFINED_SLOTS, LAMBDA s : s \notin DOMAIN filled)

\* The detectors of identify_slots, in source order.
DetectAll(user_in) ==
    LET text == Lower(user_in)
        f1 == DetectGenre(text, EmptySlots)
        f2 == DetectMood(text, f1)
        f3 == DetectDirector(text, f2)
        f4 == DetectEra(user_in, text, f3)
        f5 == DetectLanguage(text, f4)
    IN DetectRuntime(text, f5)

\* identify_slots(user_input): (filled, missing)
identify_slots(user_in) ==
    LET filled == DetectAll(user_in)
    IN <<filled, ComposeMissing(filled)>>

-----------------------------------------------------------------------------
(* _score_movie_against_slots and retrieve_candidates                      *)

\* +3 when the filled genre is a substring of the movie's genre (case-insensitive).
GenreScore(movie, filled) ==
    IF "genre" \in DOMAIN filled /\ Contains(Lower(movie.genre), Lower(filled["genre"]))
    THEN 3 ELSE 0

\* +4 when the filled director equals the movie's director (case-insensitive).
DirectorScore(movie, filled) ==
    IF "director" \in DOMAIN filled /\ Lower(filled["director"]) = Lower(movie.director)
    THEN 4 ELSE 0

\* +2 when the filled language equals the movie's language (case-insensitive).
LanguageScore(movie, filled) ==
    IF "language" \in DOMAIN filled /\ Lower(movie.language) = Lower(filled["language"])
    THEN 2 ELSE 0

\* decade and ... in the ValueError branch: the label starts with four digits
\* whose value is not 0, and the year lies in the label's range.
EraLabelMatches(val, year) ==
    /\ EndsWith(val, "s")
    /\ Len(val) >= 4
    /\ IsDigitStr(SubSeq(val, 1, 4))
    /\ ParseDigits(SubSeq(val, 1, 4)) # 0
    /\ InEra(val, year)

\* Numeric year: +3 exact, else +2 same decade; era label: +2 in range.
EraScore(movie, filled) ==
    IF "release_era" \notin DOMAIN filled THEN 0
    ELSE LET val == filled["release_era"]
         IN IF IntParses(val)
            THEN LET y == ParseInt(val)
                 IN IF movie.release_year = y THEN 3
                    ELSE IF movie.release_year \div 10 = y \div 10 THEN 2 ELSE 0
            ELSE IF EraLabelMatches(val, movie.release_year) THEN 2 ELSE 0

\* mood in kw.lower() or any(m in kw.lower() for m in mood.split())
KeywordMatchesMood(kw, mood) ==
    LET k == Lower(kw)
        toks == Split(mood)
    IN Contains(k, mood) \/ \E j \in 1..Len(toks) : Contains(k, toks[j])

\* +1 per matching keyword, +1 when the mood is a substring of the title.
MoodScore(movie, filled) ==
    IF "mood" \notin DOMAIN filled THEN 0
    ELSE LET mood == filled["mood"]
         IN Cardinality({j \in 1..Len(movie.keywords) : KeywordMatchesMood(movie.keywords[j], mood)})
            + (IF Contains(Lower(movie.title), mood) THEN 1 ELSE 0)

score_movie_against_slots(movie, filled) ==
    GenreScore(movie, filled) + DirectorScore(movie, filled) + LanguageScore(movie, filled)
    + EraScore(movie, filled) + MoodScore(movie, filled)

\* Tuple comparison of two keys of equal length.
KeyLess(a, b) ==
    \E i \in 1..Len(a) : a[i] < b[i] /\ \A j \in 1..(i - 1) : a[j] = b[j]

\* x placed before the first element whose key is smaller than x's.
InsertDesc(sorted, x) ==
    LET smaller == {i \in 1..Len(sorted) : KeyLess(sorted[i][1], x[1])}
        at == IF smaller = {} THEN Len(sorted) + 1 ELSE SetMin(smaller)
    IN SubSeq(sorted, 1, at - 1) \o <<x>> \o SubSeq(sorted, at, Len(sorted))

RECURSIVE SortedDesc(_)
\* sorted(pairs, key=..., reverse=True) of <<key, item>> pairs: descending
\* by key, equal keys keeping their original order.
SortedDesc(pairs) ==
    IF pairs = <<>> THEN <<>>
    ELSE InsertDesc(SortedDesc(SubSeq(pairs, 1, Len(pairs) - 1)), pairs[Len(pairs)])

\* seq[:k]
Slice(seq, k) ==
    IF k >= 0 THEN SubSeq(seq, 1, Min(k, Len(seq)))
    ELSE SubSeq(seq, 1, Max(Len(seq) + k, 0))

Items(pairs) == [i \in 1..Len(pairs) |-> pairs[i][2]]

\* scored_sorted: the (score, movie) pairs by (score, release_year) descending.
ScoredSorted(filled) ==
    SortedDesc([i \in 1..Len(MOVIE_DB) |->
        LET score == score_movie_against_slots(MOVIE_DB[i], filled)
        IN << <<score, MOVIE_DB[i].release_year>>, <<score, MOVIE_DB[i]>> >>])

\* [m for s, m in scored_sorted if s > 0]
PositiveMovies(filled) ==
    LET kept == SelectSeq(Items(ScoredSorted(filled)), LAMBDA sm : sm[1] > 0)
    IN [i \in 1..Len(kept) |-> kept[i][2]]

\* The fallback taken in catalog order (what reusing MOVIE_DB[:top_k] does).
RecentFallbackCatalogOrder(k) == Slice(MOVIE_DB, k)

\* sorted(MOVIE_DB, key=release_year, reverse=True)[:top_k]
RecentFallback(k) ==
    Slice(Items(SortedDesc([i \in 1..Len(MOVIE_DB) |->
        << <<MOVIE_DB[i].release_year>>, MOVIE_DB[i] >>])), k)

\* The ranking without the fallback (what dropping the "if not top" block does).
RankedNoFallback(filled, k) == Slice(PositiveMovies(filled), k)

\* top = positives[:top_k]; if not top: top = the top_k most recent.
Ranked(filled, k) ==
    LET top == Slice(PositiveMovies(filled), k)
    IN IF top = <<>> THEN RecentFallback(k) ELSE top

retrieve_candidates(filled, k) ==
    IF DOMAIN filled = {} THEN Slice(MOVIE_DB, k) ELSE Ranked(filled, k)

-----------------------------------------------------------------------------
(* get_ai_response                                                         *)

priority == <<"genre", "mood", "release_era", "director", "language", "runtime">>

\* The question templates; the source's em dash (U+2014) is written "--".
GenreQuestion == "Sure -- what genre are you in the mood for? (e.g., Action, Drama, Comedy, Romance)"
MoodQuestion == "Would you like something more light/fun or more serious/intense?"
EraQuestion == "Any preference for release era -- classic, 1990s, 2000s, 2010s, or recent?"
DirectorQuestion == "Do you prefer a specific director or filmmaker? If yes, name them (e.g., Nolan)."
LanguageQuestion == "Do you have a preferred language? (e.g., English, Korean, Spanish)"
RuntimeQuestion == "Do you prefer a short (<100 min), medium (100-140 min), or long (>140 min) movie?"
GrittyQuestion == "Great -- for action, do you want something gritty/realistic or a fun blockbuster?"
GenericQuestion == "Thanks -- one quick check: do you prefer newer releases or are older films okay?"
StarterQuestion == "Got it -- to start, what type of movie would you like (genre, mood, or director)?"

SameDirectorQuestion(director) ==
    "Do you want something by " \o director \o " specifically, or films with a similar tone?"

MoodIntensityQuestion(mood) ==
    "You mentioned '" \o mood \o "'. Would you prefer a milder or a stronger version of that mood?"

\* What get_ai_response ends with, in place of a question, when it reads
\* slot_to_ask and the loop over priority has bound it to nothing.
UnboundLocalError == "UnboundLocalError: slot_to_ask"

Elems(seq) == {seq[i] : i \in 1..Len(seq)}

\* The cascade with the director check moved before the genre check.
ConfirmationQuestionDirectorFirst(filled) ==
    IF DOMAIN filled # {}
    THEN IF "director" \in DOMAIN filled THEN SameDirectorQuestion(filled["director"])
         ELSE IF "genre" \in DOMAIN filled /\ filled["genre"] # ""
                 /\ Contains(filled["genre"], "Action")
         THEN GrittyQuestion
         ELSE IF "mood" \in DOMAIN filled THEN MoodIntensityQuestion(filled["mood"])
         ELSE GenericQuestion
    ELSE StarterQuestion

\* The cascade with the mood check moved before the director check.
ConfirmationQuestionMoodFirst(filled) ==
    IF DOMAIN filled # {}
    THEN IF "genre" \in DOMAIN filled /\ filled["genre"] # ""
            /\ Contains(filled["genre"], "Action")
         THEN GrittyQuestion
         ELSE IF "mood" \in DOMAIN filled THEN MoodIntensityQuestion(filled["mood"])
         ELSE IF "director" \in DOMAIN filled THEN SameDirectorQuestion(filled["director"])
         ELSE GenericQuestion
    ELSE StarterQuestion

\* The branch taken when no slot is missing (or none was asked about).
ConfirmationQuestion(filled) ==
    IF DOMAIN filled # {}
    THEN IF "genre" \in DOMAIN filled /\ filled["genre"] # ""
            /\ Contains(filled["genre"], "Action")
         THEN GrittyQuestion
         ELSE IF "director" \in DOMAIN filled THEN SameDirectorQuestion(filled["director"])
         ELSE IF "mood" \in DOMAIN filled THEN MoodIntensityQuestion(filled["mood"])
         ELSE GenericQuestion
    ELSE StarterQuestion

\* The question templates with the era and director questions exchanged.
SlotQuestionSwapped(slot_to_ask, filled) ==
    CASE slot_to_ask = "genre" -> GenreQuestion
      [] slot_to_ask = "mood" -> MoodQuestion
      [] slot_to_ask = "release_era" -> DirectorQuestion
      [] slot_to_ask = "director" -> EraQuestion
      [] slot_to_ask = "language" -> LanguageQuestion
      [] slot_to_ask = "runtime" -> RuntimeQuestion
      [] OTHER -> ConfirmationQuestion(filled)

\* The chain of "if slot_to_ask == ..." returns; a slot matching none of
\* them falls through to the confirmation branch.
SlotQuestion(slot_to_ask, filled) ==
    CASE slot_to_ask = "genre" -> GenreQuestion
      [] slot_to_ask = "mood" -> MoodQuestion
      [] slot_to_ask = "release_era" -> EraQuestion
      [] slot_to_ask = "director" -> DirectorQuestion
      [] slot_to_ask = "language" -> LanguageQuestion
      [] slot_to_ask = "runtime" -> RuntimeQuestion
      [] OTHER -> ConfirmationQuestion(filled)

\* The question chosen from a priority list that lacks its last slot.
QuestionShortPriority(filled, missing) ==
    IF missing # <<>>
    THEN LET hits == {i \in 1..(Len(priority) - 1) : priority[i] \in Elems(missing)}
         IN IF hits = {} THEN UnboundLocalError
            ELSE SlotQuestion(priority[SetMin(hits)], filled)
    ELSE ConfirmationQuestion(filled)

\* The rule-based question of get_ai_response.
Question(filled, missing) ==
    IF missing # <<>>
    THEN LET hits == {i \in 1..Len(priority) : priority[i] \in Elems(missing)}
         IN IF hits = {} THEN UnboundLocalError
            ELSE SlotQuestion(priority[SetMin(hits)], filled)
    ELSE ConfirmationQuestion(filled)

\* The default of retrieve_candidates' top_k parameter.
DefaultTopK == 3

-----------------------------------------------------------------------------
(* The explored inputs.                                                    *)

Vocabulary ==
    {"action", "superhero", "thoughtful", "Nolan", "2010", "1999", "min", "minutes"}

Separators == {" ", ""}

RECURSIVE WordSeqs(_)
\* The texts of at most n vocabulary words.
WordSeqs(n) ==
    IF n = 0 THEN {""}
    ELSE LET shorter == WordSeqs(n - 1)
         IN shorter \cup Vocabulary
                    \cup {t \o sep \o w : t \in shorter \ {""}, sep \in Separators, w \in Vocabulary}

RECURSIVE JoinWords(_)
\* " ".join of the non-empty phrases.
JoinWords(phrases) ==
    IF phrases = <<>> THEN ""
    ELSE LET rest == JoinWords(Tail(phrases))
         IN IF Head(phrases) = "" THEN rest
            ELSE IF rest = "" THEN Head(phrases)
            ELSE Head(phrases) \o " " \o rest

\* Requests made of one optional phrase per preference.
Sentences ==
    {JoinWords(<<g, m, d, e, l, r>>) :
        g \in {"", "an action", "a superhero", "a Drama"},
        m \in {"", "fun", "epic"},
        d \in {"", "by Nolan", "by Joss Whedon"},
        e \in {"", "from 2010", "from the 1990s"},
        l \in {"", "in English", "in korean"},
        r \in {"", "short", "90 min", "120 minutes"}}

\* The requests of the tests and of the few-shot examples.
Scenarios ==
    {"Recommend a fun action movie", "Recommend something", "Any movies by Nolan?",
     "I liked the new Nolan movie.", "Something romantic but upbeat.",
     "a classic over 2hr", "a mind-bending thriller in Korean"}

UserInputs == WordSeqs(MaxWords) \cup Sentences \cup Scenarios

\* The dict holding each slot whose option (<<>> or <<value>>) is a value.
MakeSlots(opts) ==
    [s \in {DEFINED_SLOTS[i] : i \in {j \in 1..Len(DEFINED_SLOTS) : opts[j] # <<>>}} |->
        opts[CHOOSE i \in 1..Len(DEFINED_SLOTS) : DEFINED_SLOTS[i] = s][1]]

Optional(values) == {<<>>} \cup {<<v>> : v \in values}

\* The FilledSlots arguments of direct calls to retrieve_candidates.
SlotArgs ==
    {MakeSlots(<<g, m, e, d, l, r>>) :
        g \in Optional({"Action", "sci-fi", "Comedy"}),
        m \in Optional({"fun", "dark knight"}),
        e \in Optional({"2010", "2015", "2010s", "classic"}),
        d \in Optional({"Christopher Nolan", "bong joon ho", "Nolan"}),
        l \in Optional({"english"}),
        r \in Optional({"long"})}

TopKs == (0 - MaxNegTopK)..MaxTopK

-----------------------------------------------------------------------------
(* The state machine.  A caller invokes one of the three functions with    *)
(* its arguments (pc = "called"), the function runs to its return          *)
(* (pc = "returned"), and nothing is kept between calls.                   *)

Init ==
    /\ pc = "idle"
    /\ op = "none"
    /\ user_input = ""
    /\ filled_slots = EmptySlots
    /\ missing_slots = <<>>
    /\ top_k = DefaultTopK
    /\ candidates = <<>>
    /\ response = ""

\* A caller passes a text to identify_slots or to get_ai_response.
InvokeWithText ==
    /\ pc = "idle"
    /\ pc' = "called"
    /\ op' \in {"identify_slots", "get_ai_response"}
    /\ user_input' \in UserInputs
    /\ UNCHANGED <<filled_slots, missing_slots, top_k, candidates, response>>

\* A caller passes a FilledSlots mapping and a top_k to retrieve_candidates.
InvokeRetrieve ==
    /\ pc = "idle"
    /\ pc' = "called"
    /\ op' = "retrieve_candidates"
    /\ filled_slots' \in SlotArgs
    /\ top_k' \in TopKs
    /\ UNCHANGED <<user_input, missing_slots, candidates, response>>

RunIdentifySlots ==
    /\ pc = "called" /\ op = "identify_slots"
    /\ LET r == identify_slots(user_input)
       IN /\ filled_slots' = r[1]
          /\ missing_slots' = r[2]
    /\ pc' = "returned"
    /\ UNCHANGED <<op, user_input, top_k, candidates, response>>

RunRetrieveCandidates ==
    /\ pc = "called" /\ op = "retrieve_candidates"
    /\ candidates' = retrieve_candidates(filled_slots, top_k)
    /\ pc' = "returned"
    /\ UNCHANGED <<op, user_input, filled_slots, missing_slots, top_k, response>>

\* get_ai_response: identify_slots, retrieve_candidates with the default
\* top_k, then the question; build_dynamic_prompt only formats a string
\* that is then dropped.
RunGetAiResponse ==
    /\ pc = "called" /\ op = "get_ai_response"
    /\ \E slots \in {identify_slots(user_input)} :
          /\ filled_slots' = slots[1]
          /\ missing_slots' = slots[2]
          /\ candidates' = retrieve_candidates(slots[1], DefaultTopK)
          /\ response' = Question(slots[1], slots[2])
    /\ pc' = "returned"
    /\ UNCHANGED <<op, user_input, top_k>>

\* The call has returned; each call starts afresh.
Return ==
    /\ pc = "returned"
    /\ pc' = "idle"
    /\ op' = "none"
    /\ user_input' = ""
    /\ filled_slots' = EmptySlots
    /\ missing_slots' = <<>>
    /\ top_k' = DefaultTopK
    /\ candidates' = <<>>
    /\ response' = ""

Next ==
    \/ InvokeWithText
    \/ InvokeRetrieve
    \/ RunIdentifySlots
    \/ RunRetrieveCandidates
    \/ RunGetAiResponse
    \/ Return

Spec == Init /\ [][Next]_vars

-----------------------------------------------------------------------------
(* Properties.                                                             *)

Returned(f) == pc = "returned" /\ op = f

\* The call that returned ran identify_slots.
SlotsIdentified == pc = "returned" /\ op \in {"identify_slots", "get_ai_response"}

\* The call that returned ran retrieve_candidates.
CandidatesRetrieved == pc = "returned" /\ op \in {"retrieve_candidates", "get_ai_response"}

StartsWith(s, prefix) == Len(s) >= Len(prefix) /\ SubSeq(s, 1, Len(prefix)) = prefix

SixSlots == {"genre", "mood", "release_era", "director", "language", "runtime"}

NoRepeats(seq) == \A i, j \in 1..Len(seq) : seq[i] = seq[j] => i = j

Titles(movies) == [i \in 1..Len(movies) |-> movies[i].title]

ScoreOf(movie) == score_movie_against_slots(movie, filled_slots)

SomePositiveScore == \E i \in 1..Len(MOVIE_DB) : ScoreOf(MOVIE_DB[i]) > 0

\* a ranks strictly before b: higher score, or equal score and later release.
RanksBefore(a, b) ==
    \/ ScoreOf(a) > ScoreOf(b)
    \/ ScoreOf(a) = ScoreOf(b) /\ a.release_year > b.release_year

\* C1: every question returned by get_ai_response, for any input including
\* the empty string and whichever branch produced it, is a non-empty string
\* containing at least one "?".
C1_ResponseAsksQuestion ==
    Returned("get_ai_response") => response # "" /\ Contains(response, "?")

\* get_ai_response has answered the empty string.
C1_Witness ==
    Returned("get_ai_response") /\ user_input = "" /\ response = GenreQuestion

\* C2: for every FilledSlots and top_k >= 1, retrieve_candidates returns at
\* least 1 and at most top_k entries, each a catalog entry, none twice.
C2_BetweenOneAndTopK ==
    (CandidatesRetrieved /\ top_k >= 1) =>
        /\ Len(candidates) >= 1
        /\ Len(candidates) <= top_k
        /\ \A i \in 1..Len(candidates) : candidates[i] \in Elems(MOVIE_DB)
        /\ NoRepeats(candidates)

\* retrieve_candidates found a single scoring entry for top_k = 3.
C2_Witness ==
    /\ Returned("retrieve_candidates")
    /\ DOMAIN filled_slots = {"director"}
    /\ top_k = 3
    /\ Len(candidates) = 1

\* C3: for every top_k <= 0 and every FilledSlots, retrieve_candidates
\* returns an empty candidate list.
C3_NonPositiveTopKReturnsEmpty ==
    (Returned("retrieve_candidates") /\ top_k <= 0) => candidates = <<>>

\* The ranking of C4 on the candidates returned.
RankedPositivesTruncated ==
    LET positives == {i \in 1..Len(MOVIE_DB) : ScoreOf(MOVIE_DB[i]) > 0}
    IN /\ Len(candidates) = Min(Max(top_k, 0), Cardinality(positives))
       /\ NoRepeats(candidates)
       /\ \A i \in 1..Len(candidates) :
            /\ candidates[i] \in Elems(MOVIE_DB)
            /\ ScoreOf(candidates[i]) > 0
       /\ \A i, j \in 1..Len(candidates) :
            i < j => RanksBefore(candidates[i], candidates[j])
       /\ \A p \in positives : \A i \in 1..Len(candidates) :
            MOVIE_DB[p] \notin Elems(candidates) => ~RanksBefore(MOVIE_DB[p], candidates[i])
       /\ (filled_slots = ("director" :> "Christopher Nolan") /\ top_k = 3
             => Titles(candidates) = <<"Inception", "The Dark Knight">>)
       /\ (filled_slots = ("genre" :> "Action")
             => \A i \in 1..Len(candidates) : Contains(candidates[i].genre, "Action"))

\* C4: with a non-empty FilledSlots and at least one entry scoring above 0,
\* the result is exactly the entries with score > 0, by score descending and
\* then release_year descending, truncated to the first top_k; no zero-score
\* entry is returned and no omitted entry outranks a returned one.
C4_RankedPositivesTruncated ==
    (CandidatesRetrieved /\ DOMAIN filled_slots # {} /\ SomePositiveScore)
        => RankedPositivesTruncated

\* The ranking of C4 for the calls whose top_k is not negative.
RankingHoldsForNonNegativeTopK ==
    (CandidatesRetrieved /\ DOMAIN filled_slots # {} /\ SomePositiveScore /\ top_k >= 0)
        => RankedPositivesTruncated

\* The fixed question of each slot, as the claims name them.
QuestionOfSlot ==
    [genre |-> GenreQuestion, mood |-> MoodQuestion, release_era |-> EraQuestion,
     director |-> DirectorQuestion, language |-> LanguageQuestion,
     runtime |-> RuntimeQuestion]

PriorityOrder == <<"genre", "mood", "release_era", "director", "language", "runtime">>

\* C5: when at least one slot is missing, get_ai_response returns exactly
\* the question of the first missing slot in the order genre, mood,
\* release_era, director, language, runtime; "Recommend a fun action movie"
\* gets the release-era question.
C5_AsksFirstMissingByPriority ==
    (Returned("get_ai_response") /\ DOMAIN filled_slots # SixSlots) =>
        /\ \E i \in 1..Len(PriorityOrder) :
            /\ PriorityOrder[i] \notin DOMAIN filled_slots
            /\ \A j \in 1..(i - 1) : PriorityOrder[j] \in DOMAIN filled_slots
            /\ response = QuestionOfSlot[PriorityOrder[i]]
        /\ (user_input = "Recommend a fun action movie" => response = EraQuestion)

\* get_ai_response has answered the request of the test: genre and mood
\* filled, release_era the first missing slot.
C5_Witness ==
    /\ Returned("get_ai_response")
    /\ user_input = "Recommend a fun action movie"
    /\ DOMAIN filled_slots = {"genre", "mood"}
    /\ response = EraQuestion

Position(slot) == CHOOSE i \in 1..Len(PriorityOrder) : PriorityOrder[i] = slot

\* C6: identify_slots returns (filled, missing) with the keys of filled among
\* the six slots, missing exactly the slots that are not keys of filled, none
\* repeated, in the enumeration order; input with no recognisable preference
\* gives an empty filled and all six slots missing.
C6_FilledMissingPartition ==
    SlotsIdentified =>
        /\ DOMAIN filled_slots \subseteq SixSlots
        /\ Elems(missing_slots) = SixSlots \ DOMAIN filled_slots
        /\ NoRepeats(missing_slots)
        /\ \A i, j \in 1..Len(missing_slots) :
            i < j => Position(missing_slots[i]) < Position(missing_slots[j])
        /\ (user_input \in {"", "Recommend something"} =>
                /\ DOMAIN filled_slots = {}
                /\ missing_slots = PriorityOrder)

\* identify_slots has split the six slots between a non-empty filled and a
\* non-empty missing.
C6_Witness ==
    /\ Returned("identify_slots")
    /\ user_input = "Recommend a fun action movie"
    /\ filled_slots = ("genre" :> "Action") @@ ("mood" :> "fun")
    /\ missing_slots = <<"release_era", "director", "language", "runtime">>

\* C7: when all six slots are filled and the genre value contains "Action",
\* get_ai_response returns the gritty-vs-blockbuster question, whatever the
\* other five values and the candidates.
C7_ActionGetsGrittyQuestion ==
    (Returned("get_ai_response") /\ DOMAIN filled_slots = SixSlots
        /\ Contains(filled_slots["genre"], "Action"))
    => response = GrittyQuestion

\* All six slots are filled, the genre being "Sci-Fi/Action", and the
\* gritty question was returned.
C7_Witness ==
    /\ Returned("get_ai_response")
    /\ DOMAIN filled_slots = SixSlots
    /\ filled_slots["genre"] = "Sci-Fi/Action"
    /\ filled_slots["director"] = "Joss Whedon"
    /\ response = GrittyQuestion

MostRecentTitles ==
    <<"Parasite", "La La Land", "The Avengers", "Inception", "The Dark Knight">>

\* C8: with a non-empty FilledSlots for which no entry scores above 0 and
\* top_k >= 1, retrieve_candidates returns the top_k catalog entries by
\* release_year descending (all five when top_k exceeds the catalog).
C8_FallbackMostRecent ==
    (CandidatesRetrieved /\ DOMAIN filled_slots # {} /\ ~SomePositiveScore /\ top_k >= 1)
    => Titles(candidates) = SubSeq(MostRecentTitles, 1, Min(top_k, Len(MostRecentTitles)))

\* retrieve_candidates was called with only mood = "fun" and top_k = 3.
C8_Witness ==
    /\ Returned("retrieve_candidates")
    /\ filled_slots = ("mood" :> "fun")
    /\ top_k = 3
    /\ Titles(candidates) = <<"Parasite", "La La Land", "The Avengers">>

\* C9 as stated: whenever the lower-cased input contains the substring
\* "min", also inside a longer word, the runtime slot is filled with "long".
C9_MinSubstringFillsLong ==
    (SlotsIdentified /\ Contains(Lower(user_input), "min")) =>
        "runtime" \in DOMAIN filled_slots /\ filled_slots["runtime"] = "long"

\* C9 (amended): whenever the lower-cased input contains "min" as a whole
\* word (a word boundary on each side), both runtime patterns match and the
\* runtime slot holds "long", the long check being applied last.
C9_MinWordFillsLong ==
    (SlotsIdentified /\ SearchWord(Lower(user_input), "min")) =>
        /\ SearchAnyWord(Lower(user_input), ShortPatterns)
        /\ SearchAnyWord(Lower(user_input), LongPatterns)
        /\ "runtime" \in DOMAIN filled_slots
        /\ filled_slots["runtime"] = "long"

\* identify_slots has read an input with the whole word "min".
C9_Witness ==
    /\ Returned("identify_slots")
    /\ user_input = "90 min"
    /\ filled_slots = ("runtime" :> "long")

\* C10: get_ai_response never returns the starter question, the
\* mood-intensity question or the generic confirmation: an empty FilledSlots
\* has all six slots missing, and when no slot is missing the director slot
\* is filled, so the cascade stops at the gritty or the director question.
C10_NoStarterMoodOrGeneric ==
    Returned("get_ai_response") =>
        /\ response \notin {StarterQuestion, GenericQuestion}
        /\ ~StartsWith(response, "You mentioned '")
        /\ (DOMAIN filled_slots = {} => Len(missing_slots) = 6)
        /\ (missing_slots = <<>> =>
                /\ "director" \in DOMAIN filled_slots
                /\ response \in {GrittyQuestion, SameDirectorQuestion(filled_slots["director"])})

\* No slot is missing, the genre is not an action genre, and the cascade
\* stopped at the director question.
C10_Witness ==
    /\ Returned("get_ai_response")
    /\ missing_slots = <<>>
    /\ filled_slots["genre"] = "Drama"
    /\ "mood" \in DOMAIN filled_slots
    /\ response = SameDirectorQuestion(filled_slots["director"])

=============================================================================
